---- MODULE Spec2Model ----
(***************************************************************************)
(* Model of albrow/fipple: a Recorder dispatches HTTP requests through a   *)
(* client with a cookie jar, Do wraps the reply in a Response whose body   *)
(* is read and normalised once, and the Response's Expect* / PrintFailure  *)
(* methods report through the testing.T of the owning Recorder.            *)
(*                                                                         *)
(* Text is modelled as a sequence of one-character strings, so that        *)
(* strings.Contains and json.Indent are computed, not assumed.             *)
(***************************************************************************)
EXTENDS Integers, Sequences, FiniteSets, TLC

\* ------------------------------------------------------------------------
\* Text helpers
\* ------------------------------------------------------------------------

\* strings.Contains(s, sub): sub occurs in s as a contiguous run.
Contains(s, sub) ==
    \E i \in 0..(Len(s) - Len(sub)) :
        \A j \in 1..Len(sub) : s[i + j] = sub[j]

\* json: isSpace(c)
isSpace(c) == c \in {" ", "\t", "\r", "\n"}

\* json: appendNewline(dst, prefix "", indent "\t", depth)
RECURSIVE Tabs(_)
Tabs(n) == IF n <= 0 THEN <<>> ELSE <<"\t">> \o Tabs(n - 1)

newline(depth) == <<"\n">> \o Tabs(depth)

\* ------------------------------------------------------------------------
\* encoding/json scanner, restricted to objects, arrays, strings without
\* escapes and numbers made of the digit 1.  A scanner state is
\* [step, stack, endTop, err]; a step returns the new state and an opcode.
\* ------------------------------------------------------------------------
scanReset == [step |-> "BeginValue", stack |-> <<>>, endTop |-> FALSE, err |-> FALSE]

scanErr(s) == [s |-> [s EXCEPT !.step = "Error", !.err = TRUE], v |-> "scanError"]

Top(stk) == stk[Len(stk)]
Pop(stk) == SubSeq(stk, 1, Len(stk) - 1)
SetTop(stk, x) == [stk EXCEPT ![Len(stk)] = x]

\* json: popParseState
popParseState(s) ==
    LET stk == Pop(s.stack) IN
    IF stk = <<>>
    THEN [s EXCEPT !.stack = stk, !.step = "EndTop", !.endTop = TRUE]
    ELSE [s EXCEPT !.stack = stk, !.step = "EndValue"]

\* json: stateEndTop -- complains about a non-space byte on the next call
stateEndTop(s, c) ==
    IF ~isSpace(c)
    THEN [s |-> [s EXCEPT !.step = "Error", !.err = TRUE], v |-> "scanEnd"]
    ELSE [s |-> s, v |-> "scanEnd"]

\* json: stateEndValue
stateEndValue(s, c) ==
    IF s.stack = <<>>
    THEN stateEndTop([s EXCEPT !.step = "EndTop", !.endTop = TRUE], c)
    ELSE IF isSpace(c)
    THEN [s |-> [s EXCEPT !.step = "EndValue"], v |-> "scanSkipSpace"]
    ELSE CASE Top(s.stack) = "parseObjectKey" ->
                IF c = ":"
                THEN [s |-> [s EXCEPT !.stack = SetTop(s.stack, "parseObjectValue"),
                                      !.step = "BeginValue"],
                      v |-> "scanObjectKey"]
                ELSE scanErr(s)
           [] Top(s.stack) = "parseObjectValue" ->
                IF c = ","
                THEN [s |-> [s EXCEPT !.stack = SetTop(s.stack, "parseObjectKey"),
                                      !.step = "BeginString"],
                      v |-> "scanObjectValue"]
                ELSE IF c = "}"
                THEN [s |-> popParseState(s), v |-> "scanEndObject"]
                ELSE scanErr(s)
           [] OTHER ->
                IF c = ","
                THEN [s |-> [s EXCEPT !.step = "BeginValue"], v |-> "scanArrayValue"]
                ELSE IF c = "]"
                THEN [s |-> popParseState(s), v |-> "scanEndArray"]
                ELSE scanErr(s)

\* json: stateBeginString
stateBeginString(s, c) ==
    IF isSpace(c) THEN [s |-> s, v |-> "scanSkipSpace"]
    ELSE IF c = "\""
    THEN [s |-> [s EXCEPT !.step = "InString"], v |-> "scanBeginLiteral"]
    ELSE scanErr(s)

\* json: stateBeginValue
stateBeginValue(s, c) ==
    IF isSpace(c) THEN [s |-> s, v |-> "scanSkipSpace"]
    ELSE CASE c = "{" ->
                [s |-> [s EXCEPT !.stack = Append(s.stack, "parseObjectKey"),
                                 !.step = "BeginStringOrEmpty"],
                 v |-> "scanBeginObject"]
           [] c = "[" ->
                [s |-> [s EXCEPT !.stack = Append(s.stack, "parseArrayValue"),
                                 !.step = "BeginValueOrEmpty"],
                 v |-> "scanBeginArray"]
           [] c = "\"" ->
                [s |-> [s EXCEPT !.step = "InString"], v |-> "scanBeginLiteral"]
           [] c = "1" ->
                [s |-> [s EXCEPT !.step = "1"], v |-> "scanBeginLiteral"]
           [] OTHER -> scanErr(s)

\* json: scanner.step, dispatching on the current step function
scanStep(s, c) ==
    CASE s.step = "BeginValue" -> stateBeginValue(s, c)
      [] s.step = "BeginValueOrEmpty" ->
            IF isSpace(c) THEN [s |-> s, v |-> "scanSkipSpace"]
            ELSE IF c = "]" THEN stateEndValue(s, c)
            ELSE stateBeginValue(s, c)
      [] s.step = "BeginStringOrEmpty" ->
            IF isSpace(c) THEN [s |-> s, v |-> "scanSkipSpace"]
            ELSE IF c = "}"
            THEN stateEndValue([s EXCEPT !.stack = SetTop(s.stack, "parseObjectValue")], c)
            ELSE stateBeginString(s, c)
      [] s.step = "BeginString" -> stateBeginString(s, c)
      [] s.step = "InString" ->
            IF c = "\""
            THEN [s |-> [s EXCEPT !.step = "EndValue"], v |-> "scanContinue"]
            ELSE IF c \in {"\t", "\r", "\n"} THEN scanErr(s)
            ELSE [s |-> s, v |-> "scanContinue"]
      [] s.step = "1" ->
            IF c = "1" THEN [s |-> s, v |-> "scanContinue"]
            ELSE stateEndValue(s, c)
      [] s.step = "EndValue" -> stateEndValue(s, c)
      [] s.step = "EndTop" -> stateEndTop(s, c)
      [] OTHER -> scanErr(s)

\* json: scanner.eof -- TRUE when the input ended in an error
scanEofIsError(s) ==
    IF s.err THEN TRUE
    ELSE IF s.endTop THEN FALSE
    ELSE LET r == scanStep(s, " ") IN ~r.s.endTop

\* json.Indent's loop body for one byte c: the bytes appended to dst and the
\* new needIndent / depth.
indentEmit(st, v, c) ==
    LET bump == st.needIndent /\ v \notin {"scanEndObject", "scanEndArray"}
        d1   == IF bump THEN st.depth + 1 ELSE st.depth
        pre  == IF bump THEN newline(d1) ELSE <<>>
        n1   == IF bump THEN FALSE ELSE st.needIndent
    IN  IF v = "scanContinue"
        THEN [dst |-> st.dst \o pre \o <<c>>, needIndent |-> n1, depth |-> d1]
        ELSE CASE c \in {"{", "["} ->
                    [dst |-> st.dst \o pre \o <<c>>, needIndent |-> TRUE, depth |-> d1]
               [] c = "," ->
                    [dst |-> st.dst \o pre \o <<c>> \o newline(d1),
                     needIndent |-> n1, depth |-> d1]
               [] c = ":" ->
                    [dst |-> st.dst \o pre \o <<c, " ">>, needIndent |-> n1, depth |-> d1]
               [] c \in {"}", "]"} ->
                    IF n1
                    THEN [dst |-> st.dst \o pre \o <<c>>, needIndent |-> FALSE, depth |-> d1]
                    ELSE [dst |-> st.dst \o pre \o newline(d1 - 1) \o <<c>>,
                          needIndent |-> FALSE, depth |-> d1 - 1]
               [] OTHER ->
                    [dst |-> st.dst \o pre \o <<c>>, needIndent |-> n1, depth |-> d1]

\* json.Indent's loop over src from byte i on; st = [scan, dst, needIndent, depth]
RECURSIVE indentLoop(_, _, _)
indentLoop(src, i, st) ==
    IF i > Len(src) THEN st
    ELSE LET r == scanStep(st.scan, src[i]) IN
         IF r.v = "scanSkipSpace"
         THEN indentLoop(src, i + 1, [st EXCEPT !.scan = r.s])
         ELSE IF r.v = "scanError"
         THEN [st EXCEPT !.scan = r.s]
         ELSE LET e == indentEmit(st, r.v, src[i]) IN
              indentLoop(src, i + 1,
                  [scan |-> r.s, dst |-> e.dst,
                   needIndent |-> e.needIndent, depth |-> e.depth])

\* json.Indent(dst, src, "", "\t") on an empty dst: [out, err].  On a syntax
\* error dst is truncated back to its original (empty) length.
Indent(src) ==
    LET st == indentLoop(src, 1,
                  [scan |-> scanReset, dst |-> <<>>, needIndent |-> FALSE, depth |-> 0])
    IN  IF scanEofIsError(st.scan)
        THEN [out |-> <<>>, err |-> TRUE]
        ELSE [out |-> st.dst, err |-> FALSE]


\* ------------------------------------------------------------------------
\* Bounds and input sets
\* ------------------------------------------------------------------------

\* Responses created by Do over a run, and Expect*/Print* calls over a run.
MaxResponses == 2
MaxCalls == 2
MaxCloses == 2

\* Goroutines that call methods on Responses at the same time.
MaxGoroutines == 2
Goroutines == 1..MaxGoroutines

\* Each test function owns one testing.T and creates at most one Recorder.
Tests == {"TestA", "TestB"}

Quote == "\""
Esc == "ESC[2m"

CTJson == <<"application/json">>
CTJsonCharset == <<"application/json", "; charset=utf-8">>
CTText == <<"text/plain">>

HostTokens == {"http://h1", "http://h2"}
PathTokens == {"/users", "/home", "/"}
Methods == {"GET", "POST", "PUT", "DELETE"}

\* Pieces of a URL that do not start with a slash, and a piece with an
\* escape sequence that url.Parse rejects.
BareTokens == {"users"}
BadTokens == {"%zz"}

\* Status codes and substrings the test passes to ExpectCode / ExpectBodyContains.
Codes == {200, 404}
Needles == {<<":", " ", "1">>, <<":", "1">>}

NoCookie == [name |-> "", value |-> "", expire |-> FALSE]

\* What the server answers: status, Content-Type, payload, whether the body
\* stream breaks before its last byte, and a Set-Cookie directive.
Reply(code, ct, payload, readErr, cookie) ==
    [StatusCode |-> code, ContentType |-> ct, Payload |-> payload,
     readErr |-> readErr, SetCookie |-> cookie]

PayloadObj == <<"{", Quote, "a", Quote, ":", "1", "}">>
PayloadArr == <<"[", "1", "]">>

ReplyObj == Reply(200, CTJson, PayloadObj, FALSE, NoCookie)
ReplyArr == Reply(404, CTText, PayloadArr, FALSE, NoCookie)
ReplyEmpty == Reply(200, CTText, <<>>, FALSE, NoCookie)
ReplyBadJSON == Reply(200, CTJsonCharset, <<"{">>, FALSE, NoCookie)
ReplyBroken == Reply(404, CTText, PayloadArr, TRUE, NoCookie)
ReplyBrokenJSON == Reply(200, CTJson, PayloadArr, TRUE, NoCookie)

\* A transport outcome of client.Do: an error, or a final reply reached
\* directly or after one 302 redirect to /home (which the client follows
\* with a GET); first is the Set-Cookie directive of the redirect.
Outcome(err, redirect, first, reply) ==
    [err |-> err, redirect |-> redirect, first |-> first, reply |-> reply]

TransportError == Outcome(TRUE, FALSE, NoCookie, Reply(0, <<>>, <<>>, FALSE, NoCookie))
Direct(reply) == Outcome(FALSE, FALSE, NoCookie, reply)
Redirect(reply) == Outcome(FALSE, TRUE, NoCookie, reply)

\* Requests the tests dispatch, as <<method, path>>.
ReqInputs == {<<"GET", "/users">>, <<"POST", "/users">>}

\* The handler under test in Spec: what it may answer on each route.
Handler(mp) ==
    IF mp[1] = "GET" THEN {Direct(ReplyObj), Direct(ReplyEmpty)}
    ELSE {Direct(ReplyArr), Redirect(ReplyArr)}

\* The handler under test in SpecBody: replies whose body cannot be read to
\* the end or is not the JSON its Content-Type declares.
BodyHandler(mp) ==
    IF mp[1] = "GET" THEN {Direct(ReplyObj), Direct(ReplyBadJSON), Direct(ReplyBrokenJSON)}
    ELSE {Direct(ReplyArr), Direct(ReplyBroken)}

\* Set-Cookie directives of the handler under test in SpecCookies, and its
\* outcomes: a reply that sets, replaces or expires the session cookie or
\* leaves it alone, and a redirect that sets it.
SetSid(v) == [name |-> "sid", value |-> v, expire |-> FALSE]
ExpireSid == [name |-> "sid", value |-> "", expire |-> TRUE]

CookieOutcomes ==
    {TransportError}
    \cup {Direct(Reply(200, CTText, <<>>, FALSE, sc)) :
            sc \in {NoCookie, SetSid("v1"), SetSid("v2"), ExpireSid}}
    \cup {Outcome(FALSE, TRUE, SetSid("v1"), ReplyEmpty)}

\* Form data the tests post.
FormData == {[k \in {"a"} |-> "1"]}

\* Inputs of the request builders: methods (a token, the empty string, a
\* string that is no token), paths (with and without a leading slash, with
\* an invalid escape) and base URLs (without and with a trailing slash).
BuildMethods == {"PUT", "", "B AD"}
BuildPaths == {"/users", "users", "%zz"}
Bases == {<<"http://h2">>, <<"http://h2", "/">>}

\* Form fields, the orders a range over the fields map may take, files and
\* the boundaries multipart.NewWriter may draw.
Fields == {[k \in {} |-> "1"], [k \in {"a"} |-> "1"], [k \in {"a", "b"} |-> "1"]}
FieldOrders == {<<"a", "b">>, <<"b", "a">>}
File(open) == [name |-> "f.txt", content |-> <<"x">>, open |-> open]
FileMaps == {[k \in {} |-> File(TRUE)], [k \in {"file"} |-> File(TRUE)],
             [k \in {"file"} |-> File(FALSE)]}
Boundaries == {"b1", "b2"}

\* Paths and transport outcomes of the verbs in SpecVerbs.
VerbPaths == {"/users", "%zz"}
VerbOutcomes ==
    {TransportError, Redirect(ReplyArr),
     Direct(Reply(200, CTText, <<>>, FALSE, SetSid("v1")))}

\* Values handed to NewJSONRequest: a map, and a func, which json cannot encode.
JSONValues == {"map", "func"}

\* ------------------------------------------------------------------------
\* State
\* ------------------------------------------------------------------------
VARIABLES
    recorder,   \* Tests -> the Recorder the test created (made = FALSE before)
    responses,  \* the Responses created by Do, in creation order
    log,        \* Tests -> what the test's testing.T has been told, in order
    halted,     \* Tests -> the test goroutine was stopped by t.Fatal
    calls,      \* history: per Response, the Expect*/Print* calls made on it
    wire,       \* history: the requests the clients put on the wire
    errs,       \* history: Tests -> number of errors that arose in the test
    got,        \* Tests -> what the last GetCookies call returned
    closes,     \* history: Tests -> number of Close calls on the test's Recorder
    built,      \* Tests -> the request the test built last and holds
    threads,    \* Goroutines -> where the goroutine is in its call on a Response
    onceM       \* the Responses whose sync.Once mutex is locked

vars == <<recorder, responses, log, halted, calls, wire, errs, got, closes, built,
          threads, onceM>>

\* ------------------------------------------------------------------------
\* net/url and net/http helpers
\* ------------------------------------------------------------------------

\* url.Parse on a sequence of pieces: the scheme and authority run up to the
\* first piece that starts with a slash, the path is everything from there.
\* A piece with an invalid escape makes the parse fail.
urlParse(u) ==
    LET slashes == {i \in 2..Len(u) : u[i] \in PathTokens}
        hostEnd == IF slashes = {} THEN Len(u)
                   ELSE (CHOOSE i \in slashes : \A j \in slashes : i <= j) - 1
    IN  IF u # <<>> /\ u[1] \in HostTokens
           /\ \A i \in 2..Len(u) : u[i] \in PathTokens \cup BareTokens
        THEN [ok |-> TRUE, Host |-> SubSeq(u, 1, hostEnd),
              Path |-> SubSeq(u, hostEnd + 1, Len(u))]
        ELSE [ok |-> FALSE, Host |-> <<>>, Path |-> <<>>]

\* url.URL.String for a URL without query and fragment
urlString(u) == u.Host \o u.Path

\* http.NewRequest(method, url, body): an empty method stands for GET, a
\* method that is no token and a URL that does not parse are errors.
httpNewRequest(method, u, ctype, body) ==
    LET p == urlParse(u)
        m == IF method = "" THEN "GET" ELSE method
    IN  [ok |-> p.ok /\ m \in Methods,
         Method |-> m, Host |-> p.Host, Path |-> p.Path,
         ContentType |-> ctype, Body |-> body]

\* cookiejar.Jar.Cookies(u): the stored cookies for u's host
jarCookies(jar, host) == {c \in jar : c.host = host}

\* http.Client: the cookies the client adds to a request for host, and its
\* jar after a reply with the Set-Cookie directive sc.  A client without a
\* Jar adds and stores nothing.
clientCookies(client, host) ==
    IF client.Jar THEN jarCookies(client.cookies, host) ELSE {}

\* cookiejar.Jar.SetCookies(u, cookies) for one Set-Cookie directive
jarSetCookies(jar, host, sc) ==
    IF sc.name = "" THEN jar
    ELSE LET rest == {c \in jar : ~(c.host = host /\ c.name = sc.name)} IN
         IF sc.expire THEN rest
         ELSE rest \cup {[host |-> host, name |-> sc.name, value |-> sc.value]}

clientStore(client, host, sc) ==
    IF client.Jar
    THEN [client EXCEPT !.cookies = jarSetCookies(@, host, sc)]
    ELSE client

CookiePairs(cs) == {[name |-> c.name, value |-> c.value] : c \in cs}

\* url.Values.Encode for data over the keys "a" and "b": key=value pairs in
\* key order, joined by &.
valuesEncode(data) ==
    LET pair(k) == <<k, "=", data[k]>> IN
    IF DOMAIN data = {} THEN <<>>
    ELSE IF DOMAIN data = {"a"} THEN pair("a")
    ELSE IF DOMAIN data = {"b"} THEN pair("b")
    ELSE pair("a") \o <<"&">> \o pair("b")

\* What GetCookies has returned, and how many requests were on the wire then.
NotCalled == [called |-> FALSE, cookies |-> {}, at |-> 0]

\* ------------------------------------------------------------------------
\* testing.T
\* ------------------------------------------------------------------------
Report(level, fmt, resp, method, path, body, expected, actual, str) ==
    [level |-> level, fmt |-> fmt, resp |-> resp, Method |-> method, Path |-> path,
     body |-> body, expected |-> expected, actual |-> actual, str |-> str]

\* t.Fatal(err)
FatalReport == Report("Fatal", "err", 0, "", <<>>, <<>>, 0, 0, <<>>)

\* ------------------------------------------------------------------------
\* Recorder
\* ------------------------------------------------------------------------
\* newTestClient without the cookie jar: &http.Client{}
newTestClientNoJar == [Jar |-> FALSE, cookies |-> {}]

\* newTestClient: a client with a fresh, empty cookie jar
newTestClient == [Jar |-> TRUE, cookies |-> {}]

NoRecorder ==
    [made |-> FALSE, baseURL |-> <<>>, server |-> "nil", Colorize |-> FALSE,
     client |-> [Jar |-> FALSE, cookies |-> {}]]

\* t.Fatal reporting without stopping the test, as t.Error does.
FatalAsError(t) ==
    /\ log' = [log EXCEPT ![t] = Append(@, FatalReport)]
    /\ halted' = halted

\* r.t.Fatal(err): the error is reported and the test goroutine exits.
Fatal(t) ==
    /\ log' = [log EXCEPT ![t] = Append(@, FatalReport)]
    /\ halted' = [halted EXCEPT ![t] = TRUE]

\* A goroutine that has not been started.
Idle == [pc |-> "idle", resp |-> 0, call |-> [op |-> "", code |-> 0, str |-> <<>>]]

\* No request built yet.
NoBuilt ==
    [has |-> FALSE, by |-> "", method |-> "", path |-> "", at |-> 0,
     req |-> [ok |-> FALSE, Method |-> "", Host |-> <<>>, Path |-> <<>>,
              ContentType |-> <<>>, Body |-> <<>>]]

Init ==
    /\ recorder = [t \in Tests |-> NoRecorder]
    /\ responses = <<>>
    /\ log = [t \in Tests |-> <<>>]
    /\ halted = [t \in Tests |-> FALSE]
    /\ calls = <<>>
    /\ wire = <<>>
    /\ errs = [t \in Tests |-> 0]
    /\ got = [t \in Tests |-> NotCalled]
    /\ closes = [t \in Tests |-> 0]
    /\ built = [t \in Tests |-> NoBuilt]
    /\ threads = [g \in Goroutines |-> Idle]
    /\ onceM = {}

\* The test may run: it has not been stopped by t.Fatal.
Running(t) == ~halted[t]

\* NewRecorder(t, handler): starts an httptest server for the handler.
NewRecorder(t) ==
    /\ Running(t)
    /\ ~recorder[t].made
    /\ recorder' = [recorder EXCEPT ![t] =
            [made |-> TRUE, baseURL |-> <<"http://h1">>, server |-> "running",
             Colorize |-> TRUE, client |-> newTestClient]]
    /\ UNCHANGED <<responses, log, halted, calls, wire, errs, got, closes, built, threads, onceM>>

\* NewURLRecorder(t, baseURL)
NewURLRecorder(t, baseURL) ==
    /\ Running(t)
    /\ ~recorder[t].made
    /\ recorder' = [recorder EXCEPT ![t] =
            [made |-> TRUE, baseURL |-> baseURL, server |-> "nil",
             Colorize |-> TRUE, client |-> newTestClient]]
    /\ UNCHANGED <<responses, log, halted, calls, wire, errs, got, closes, built, threads, onceM>>

\* Close without the call of r.server.Close().
CloseKeepsServer(t) ==
    /\ Running(t)
    /\ recorder[t].made
    /\ closes[t] < MaxCloses
    /\ closes' = [closes EXCEPT ![t] = @ + 1]
    /\ UNCHANGED <<recorder, responses, log, halted, calls, wire, errs, got, built, threads, onceM>>

\* Recorder.Close: if r.server != nil { r.server.Close() }.  Closing an
\* httptest.Server that is closed already does nothing.
Close(t) ==
    /\ Running(t)
    /\ recorder[t].made
    /\ closes[t] < MaxCloses
    /\ recorder' = [recorder EXCEPT ![t].server =
            IF recorder[t].server # "nil" THEN "closed" ELSE "nil"]
    /\ closes' = [closes EXCEPT ![t] = @ + 1]
    /\ UNCHANGED <<responses, log, halted, calls, wire, errs, got, built, threads, onceM>>

\* NewRequest that joins base and path with a slash.
NewRequestJoined(t, method, path) ==
    httpNewRequest(method, recorder[t].baseURL \o <<"/", path>>, <<>>, <<>>)

\* The test sets the exported field: rec.Colorize = b
SetColorize(t, b) ==
    /\ Running(t)
    /\ recorder[t].made
    /\ recorder' = [recorder EXCEPT ![t].Colorize = b]
    /\ UNCHANGED <<responses, log, halted, calls, wire, errs, got, closes, built, threads, onceM>>

\* Recorder.NewRequest(method, path): fullURL := r.baseURL + path
NewRequest(t, method, path) ==
    httpNewRequest(method, recorder[t].baseURL \o <<path>>, <<>>, <<>>)

\* Recorder.NewRequestWithData(method, path, data)
NewRequestWithData(t, method, path, data) ==
    httpNewRequest(method, recorder[t].baseURL \o <<path>>,
                   <<"application/x-www-form-urlencoded">>, valuesEncode(data))

\* multipart.Writer: one part per field in the order the map is ranged over,
\* one part per file, and the closing boundary.
multipartBody(fields, files, order, boundary) ==
    LET fieldPart(k) == IF k \in DOMAIN fields
                        THEN <<"--", boundary, "name=", k, fields[k]>> ELSE <<>>
        filePart(k) == IF k \in DOMAIN files
                       THEN <<"--", boundary, "name=", k, "filename=", files[k].name>>
                            \o files[k].content
                       ELSE <<>>
    IN  fieldPart(order[1]) \o fieldPart(order[2]) \o filePart("file")
        \o <<"--", boundary, "--">>

\* Recorder.NewMultipartRequest(method, path, fields, files); copying a file
\* that cannot be read is an error.
NewMultipartRequest(t, method, path, fields, files, order, boundary) ==
    LET req == httpNewRequest(method, recorder[t].baseURL \o <<path>>,
                   <<"multipart/form-data; boundary=", boundary>>,
                   multipartBody(fields, files, order, boundary))
    IN  [req EXCEPT !.ok = @ /\ \A k \in DOMAIN files : files[k].open]

\* json.Encoder.Encode: the encoding followed by a newline, or an error.
jsonEncode(v) ==
    IF v = "map" THEN [err |-> FALSE, out |-> PayloadObj \o <<"\n">>]
    ELSE [err |-> TRUE, out |-> <<>>]

\* Recorder.NewJSONRequest(method, path, data)
NewJSONRequest(t, method, path, data) ==
    LET enc == jsonEncode(data)
        req == httpNewRequest(method, recorder[t].baseURL \o <<path>>, CTJson, enc.out)
    IN  [req EXCEPT !.ok = @ /\ ~enc.err]

\* A builder ran into an error: r.t.Fatal(err).
BuildFailed(t) ==
    /\ Running(t)
    /\ recorder[t].made
    /\ Fatal(t)
    /\ errs' = [errs EXCEPT ![t] = @ + 1]
    /\ UNCHANGED <<recorder, responses, calls, wire, got, closes, built, threads, onceM>>

\* The test calls a builder and keeps the request: req := rec.New...Request(...);
\* by, method, path and at (the requests on the wire so far) are history.
Build(t, by, method, path, req) ==
    IF req.ok
    THEN /\ Running(t)
         /\ recorder[t].made
         /\ built' = [built EXCEPT ![t] =
                [has |-> TRUE, by |-> by, method |-> method, path |-> path,
                 at |-> Len(wire), req |-> req]]
         /\ UNCHANGED <<recorder, responses, log, halted, calls, wire, errs, got, closes,
                        threads, onceM>>
    ELSE BuildFailed(t)

BuildNewRequest(t, method, path) ==
    Build(t, "NewRequest", method, path, NewRequest(t, method, path))

BuildNewRequestWithData(t, method, path, data) ==
    Build(t, "NewRequestWithData", method, path, NewRequestWithData(t, method, path, data))

BuildNewMultipartRequest(t, method, path, fields, files, order, boundary) ==
    Build(t, "NewMultipartRequest", method, path,
          NewMultipartRequest(t, method, path, fields, files, order, boundary))

BuildNewJSONRequest(t, method, path, data) ==
    Build(t, "NewJSONRequest", method, path, NewJSONRequest(t, method, path, data))

\* ------------------------------------------------------------------------
\* Response
\* ------------------------------------------------------------------------

\* What reading a Response's body stream yields: everything the server
\* wrote, or, when the stream breaks, the bytes before the last one.
streamData(r) ==
    IF r.readErr /\ r.payload # <<>>
    THEN SubSeq(r.payload, 1, Len(r.payload) - 1)
    ELSE r.payload

isJSON(ctype) == Contains(ctype, CTJson)

\* Response.readBody: the body of record, and the number of errors that
\* reading and indenting returned (the code assigns neither to a variable).
readBody(r) ==
    LET data == streamData(r)
        ind  == Indent(data)
        nRead == IF r.readErr THEN 1 ELSE 0
    IN  IF isJSON(r.ContentType)
        THEN [Body |-> ind.out, errors |-> nRead + (IF ind.err THEN 1 ELSE 0)]
        ELSE [Body |-> data, errors |-> nRead]

\* The *http.Response client.Do returns for the final request.  payload and
\* readErr stand for its unread body stream; sent and wireAt are history:
\* the request the caller handed to Do and the place on the wire of the
\* request that obtained the reply.
httpResponse(final, reply, req, at) ==
    [StatusCode |-> reply.StatusCode, ContentType |-> reply.ContentType,
     Request |-> [Method |-> final.Method, Host |-> final.Host, Path |-> final.Path],
     payload |-> reply.Payload, readErr |-> reply.readErr,
     sent |-> [Method |-> req.Method, Host |-> req.Host, Path |-> req.Path],
     wireAt |-> at]

\* newResponse that hands the new Response the sync.Once state of the
\* Response created before it.
newResponseSharedOnce(t, httpResp) ==
    [recorder |-> t, StatusCode |-> httpResp.StatusCode,
     ContentType |-> httpResp.ContentType, Request |-> httpResp.Request,
     payload |-> httpResp.payload, readErr |-> httpResp.readErr,
     sent |-> httpResp.sent, wireAt |-> httpResp.wireAt,
     Body |-> <<>>, once |-> responses # <<>> /\ responses[Len(responses)].once]

\* Recorder.newResponse: the http.Response wrapped with its Recorder, a nil
\* Body and a zero sync.Once.
newResponse(t, httpResp) ==
    [recorder |-> t, StatusCode |-> httpResp.StatusCode,
     ContentType |-> httpResp.ContentType, Request |-> httpResp.Request,
     payload |-> httpResp.payload, readErr |-> httpResp.readErr,
     sent |-> httpResp.sent, wireAt |-> httpResp.wireAt,
     Body |-> <<>>, once |-> FALSE]

\* The request the client sends after a 302 to /home.
redirected(req) == [req EXCEPT !.Method = "GET", !.Path = <<"/home">>,
                               !.ContentType = <<>>, !.Body = <<>>]

\* A request on the wire, with the cookies the client added to it; setCookie
\* is the Set-Cookie directive of the reply it got.
WireEntry(t, req, client, sc) ==
    [test |-> t, Method |-> req.Method, Host |-> req.Host, Path |-> req.Path,
     ContentType |-> req.ContentType, Body |-> req.Body,
     cookies |-> CookiePairs(clientCookies(client, req.Host)),
     setCookie |-> sc]

\* The server can answer only while it is up.
Reachable(t) == recorder[t].server # "closed"

\* Recorder.Do(req) with the transport outcome out.
Do(t, req, out) ==
    /\ Running(t)
    /\ recorder[t].made
    /\ req.ok
    /\ out.err \/ (Reachable(t) /\ Len(responses) < MaxResponses)
    /\ IF out.err
       THEN /\ wire' = Append(wire, WireEntry(t, req, recorder[t].client, NoCookie))
            /\ Fatal(t)
            /\ errs' = [errs EXCEPT ![t] = @ + 1]
            /\ UNCHANGED <<recorder, responses, calls>>
       ELSE LET c0    == recorder[t].client
                c1    == IF out.redirect THEN clientStore(c0, req.Host, out.first) ELSE c0
                final == IF out.redirect THEN redirected(req) ELSE req
                c2    == clientStore(c1, final.Host, out.reply.SetCookie)
                sentW == IF out.redirect
                         THEN <<WireEntry(t, req, c0, out.first),
                                WireEntry(t, final, c1, out.reply.SetCookie)>>
                         ELSE <<WireEntry(t, req, c0, out.reply.SetCookie)>>
                resp  == newResponse(t,
                            httpResponse(final, out.reply, req, Len(wire) + Len(sentW)))
                rb    == readBody(resp)
            IN  /\ wire' = wire \o sentW
                /\ recorder' = [recorder EXCEPT ![t].client = c2]
                /\ responses' = Append(responses, [resp EXCEPT !.Body = rb.Body])
                /\ calls' = Append(calls, <<>>)
                /\ errs' = [errs EXCEPT ![t] = @ + rb.errors]
                /\ UNCHANGED <<log, halted>>
    /\ UNCHANGED <<got, closes, built, threads, onceM>>

\* The test dispatches the request it holds, before it dispatches anything
\* else: rec.Do(req)
DoBuilt(t, out) ==
    /\ built[t].has
    /\ \A k \in (built[t].at + 1)..Len(wire) : wire[k].test # t
    /\ Do(t, built[t].req, out)

\* r.Do(req) for the request a builder was asked for: the builder's t.Fatal
\* ends the call before Do.
BuildAndDo(t, req, out) == IF req.ok THEN Do(t, req, out) ELSE BuildFailed(t)

\* Recorder.Get(path)
Get(t, path, out) == BuildAndDo(t, NewRequest(t, "GET", path), out)

\* Recorder.Post(path, data)
Post(t, path, data, out) ==
    BuildAndDo(t, NewRequestWithData(t, "POST", path, data), out)

\* Put that sends the data with the POST method.
PutAsPost(t, path, data, out) == Post(t, path, data, out)

\* Recorder.Put(path, data)
Put(t, path, data, out) ==
    BuildAndDo(t, NewRequestWithData(t, "PUT", path, data), out)

\* Recorder.Delete(path)
Delete(t, path, out) == BuildAndDo(t, NewRequest(t, "DELETE", path), out)

\* The Response methods below are written as functions on the part of the
\* state they touch, st = [log, once]: the testing.T record of the owning
\* Recorder's test and the Response's sync.Once, so that one method can
\* call another as the code does.

\* Response.colorBody: color.Sprintf("@{.}%s", body)
colorBody(i) == <<Esc>> \o responses[i].Body

\* PrintFailure without the branch for an empty body.
PrintFailureNoMarker(i, st) ==
    LET r == responses[i]
        body == IF recorder[r.recorder].Colorize THEN colorBody(i) ELSE r.Body
    IN  [st EXCEPT !.log = Append(@,
            Report("Error", "failedWas", i, r.Request.Method, r.Request.Path,
                   body, 0, 0, <<>>))]

\* PrintFailure that goes through the latch: it prints only while the flag
\* is unset, and sets it.
PrintFailureLatching(i, st) ==
    LET r == responses[i]
        body == IF recorder[r.recorder].Colorize THEN colorBody(i) ELSE r.Body
    IN  IF st.once THEN st
        ELSE [st EXCEPT !.once = TRUE,
                        !.log = Append(@,
                Report("Error", IF r.Body = <<>> THEN "failedEmpty" ELSE "failedWas", i,
                       r.Request.Method, r.Request.Path,
                       IF r.Body = <<>> THEN <<>> ELSE body, 0, 0, <<>>))]

\* PrintFailure that styles the body when any Recorder has Colorize set.
PrintFailureAnyColorize(i, st) ==
    LET r == responses[i]
        body == IF \E t \in Tests : recorder[t].Colorize THEN colorBody(i) ELSE r.Body
    IN  IF r.Body = <<>>
        THEN [st EXCEPT !.log = Append(@,
                Report("Error", "failedEmpty", i, r.Request.Method, r.Request.Path,
                       <<>>, 0, 0, <<>>))]
        ELSE [st EXCEPT !.log = Append(@,
                Report("Error", "failedWas", i, r.Request.Method, r.Request.Path,
                       body, 0, 0, <<>>))]

\* Response.PrintFailure
PrintFailure(i, st) ==
    LET r == responses[i]
        body == IF recorder[r.recorder].Colorize THEN colorBody(i) ELSE r.Body
    IN  IF r.Body = <<>>
        THEN [st EXCEPT !.log = Append(@,
                Report("Error", "failedEmpty", i, r.Request.Method, r.Request.Path,
                       <<>>, 0, 0, <<>>))]
        ELSE [st EXCEPT !.log = Append(@,
                Report("Error", "failedWas", i, r.Request.Method, r.Request.Path,
                       body, 0, 0, <<>>))]

\* PrintFailureOnce without the sync.Once: prints on every call.
PrintFailureOnceAlways(i, st) == [PrintFailure(i, st) EXCEPT !.once = TRUE]

\* PrintFailureOnce with a latch that a second call re-arms.
PrintFailureOnceRearm(i, st) ==
    IF st.once THEN [st EXCEPT !.once = FALSE]
    ELSE [PrintFailure(i, st) EXCEPT !.once = TRUE]

\* Response.PrintFailureOnce: r.once.Do(r.PrintFailure)
PrintFailureOnce(i, st) ==
    IF st.once THEN st
    ELSE [PrintFailure(i, st) EXCEPT !.once = TRUE]

\* ExpectCode with the two codes of its message exchanged.
ExpectCodeSwapped(i, code, st) ==
    IF responses[i].StatusCode # code
    THEN [PrintFailureOnce(i, st) EXCEPT !.log = Append(@,
            Report("Error", "code", i, "", <<>>, <<>>, responses[i].StatusCode, code, <<>>))]
    ELSE st

\* Response.ExpectCode
ExpectCode(i, code, st) ==
    IF responses[i].StatusCode # code
    THEN [PrintFailureOnce(i, st) EXCEPT !.log = Append(@,
            Report("Error", "code", i, "", <<>>, <<>>, code, responses[i].StatusCode, <<>>))]
    ELSE st

\* Response.ExpectOk
ExpectOk(i, st) == ExpectCode(i, 200, st)

\* ExpectBodyContains that searches the payload as the server sent it.
ExpectBodyContainsRaw(i, str, st) ==
    IF ~Contains(responses[i].payload, str)
    THEN [PrintFailureOnce(i, st) EXCEPT !.log = Append(@,
            Report("Error", "contain", i, "", <<>>, <<>>, 0, 0, str))]
    ELSE st

\* ExpectBodyContains that reports only while nothing was printed yet.
ExpectBodyContainsQuiet(i, str, st) ==
    IF ~Contains(responses[i].Body, str) /\ ~st.once
    THEN [PrintFailureOnce(i, st) EXCEPT !.log = Append(@,
            Report("Error", "contain", i, "", <<>>, <<>>, 0, 0, str))]
    ELSE st

\* ExpectBodyContains that reports its message before it prints the failure.
ExpectBodyContainsMsgFirst(i, str, st) ==
    IF ~Contains(responses[i].Body, str)
    THEN PrintFailureOnce(i, [st EXCEPT !.log = Append(@,
            Report("Error", "contain", i, "", <<>>, <<>>, 0, 0, str))])
    ELSE st

\* Response.ExpectBodyContains
ExpectBodyContains(i, str, st) ==
    IF ~Contains(responses[i].Body, str)
    THEN [PrintFailureOnce(i, st) EXCEPT !.log = Append(@,
            Report("Error", "contain", i, "", <<>>, <<>>, 0, 0, str))]
    ELSE st

\* ------------------------------------------------------------------------
\* The test body calling the Response methods
\* ------------------------------------------------------------------------
RECURSIVE SumLen(_, _)
SumLen(f, n) == IF n = 0 THEN 0 ELSE Len(f[n]) + SumLen(f, n - 1)

TotalCalls == SumLen(calls, Len(calls))

Owner(i) == responses[i].recorder

Before(i) == [log |-> log[Owner(i)], once |-> responses[i].once]

CallRec(op, code, str) == [op |-> op, code |-> code, str |-> str]

\* The test that holds Response i calls a method on it; st is the method's
\* result.
Call(i, rec, st) ==
    /\ Running(Owner(i))
    /\ TotalCalls < MaxCalls
    /\ log' = [log EXCEPT ![Owner(i)] = st.log]
    /\ responses' = [responses EXCEPT ![i].once = st.once]
    /\ calls' = [calls EXCEPT ![i] = Append(@, rec)]
    /\ UNCHANGED <<recorder, halted, wire, errs, got, closes, built, threads, onceM>>

CallExpectOk(i) == Call(i, CallRec("ExpectOk", 0, <<>>), ExpectOk(i, Before(i)))

CallExpectCode(i, code) ==
    Call(i, CallRec("ExpectCode", code, <<>>), ExpectCode(i, code, Before(i)))

CallExpectBodyContains(i, str) ==
    Call(i, CallRec("ExpectBodyContains", 0, str), ExpectBodyContains(i, str, Before(i)))

CallPrintFailure(i) ==
    Call(i, CallRec("PrintFailure", 0, <<>>), PrintFailure(i, Before(i)))

CallPrintFailureOnce(i) ==
    Call(i, CallRec("PrintFailureOnce", 0, <<>>), PrintFailureOnce(i, Before(i)))

\* ------------------------------------------------------------------------
\* Goroutines calling the Response methods at the same time.  A call is
\* taken apart into the steps at which goroutines can interleave: the
\* atomic load of the Once's done flag, the lock of its mutex, the call of
\* t.Errorf in PrintFailure, the store of the flag, the unlock, and the
\* call of t.Errorf with the assertion's message.
\* ------------------------------------------------------------------------

\* Calls the goroutines make.
ConcCalls ==
    {CallRec("ExpectOk", 0, <<>>), CallRec("ExpectCode", 404, <<>>),
     CallRec("ExpectBodyContains", 0, <<":", "1">>), CallRec("PrintFailureOnce", 0, <<>>)}

\* Whether the call gets to PrintFailureOnce: the condition of the
\* assertion, read from fields that no one writes after Do.
Enters(i, c) ==
    CASE c.op = "ExpectOk" -> responses[i].StatusCode # 200
      [] c.op = "ExpectCode" -> responses[i].StatusCode # c.code
      [] c.op = "ExpectBodyContains" -> ~Contains(responses[i].Body, c.str)
      [] OTHER -> c.op = "PrintFailureOnce"

\* Where a call goes on when once.Do has returned.
AfterOnce(c) == IF c.op = "PrintFailureOnce" THEN "done" ELSE "msg"

Goto(g, pc) == threads' = [threads EXCEPT ![g].pc = pc]

\* go func() { res.<method>(...) }(): the goroutine evaluates the condition.
GoCall(g, i, c) ==
    /\ threads[g].pc = "idle"
    /\ Running(Owner(i))
    /\ threads' = [threads EXCEPT ![g] =
            [pc |-> IF Enters(i, c) THEN "load" ELSE "done", resp |-> i, call |-> c]]
    /\ UNCHANGED <<recorder, responses, log, halted, calls, wire, errs, got, closes, built, onceM>>

\* once.Do: if atomic.LoadUint32(&o.done) == 0 { o.doSlow(f) }
GoLoad(g) ==
    /\ threads[g].pc = "load"
    /\ Goto(g, IF responses[threads[g].resp].once THEN AfterOnce(threads[g].call) ELSE "lock")
    /\ UNCHANGED <<recorder, responses, log, halted, calls, wire, errs, got, closes, built, onceM>>

\* o.m.Lock() that does not wait for the mutex.
GoLockNoWait(g) ==
    /\ threads[g].pc = "lock"
    /\ onceM' = onceM \cup {threads[g].resp}
    /\ Goto(g, IF responses[threads[g].resp].once THEN "unlock" ELSE "print")
    /\ UNCHANGED <<recorder, responses, log, halted, calls, wire, errs, got, closes, built>>

\* doSlow: o.m.Lock(), which waits while another goroutine holds the mutex,
\* and then if o.done == 0
GoLock(g) ==
    /\ threads[g].pc = "lock"
    /\ threads[g].resp \notin onceM
    /\ onceM' = onceM \cup {threads[g].resp}
    /\ Goto(g, IF responses[threads[g].resp].once THEN "unlock" ELSE "print")
    /\ UNCHANGED <<recorder, responses, log, halted, calls, wire, errs, got, closes, built>>

\* f(): PrintFailure, whose t.Errorf adds to the record under testing.T's lock
GoPrint(g) ==
    LET i == threads[g].resp IN
    /\ threads[g].pc = "print"
    /\ log' = [log EXCEPT ![Owner(i)] = PrintFailure(i, Before(i)).log]
    /\ Goto(g, "store")
    /\ UNCHANGED <<recorder, responses, halted, calls, wire, errs, got, closes, built, onceM>>

\* defer atomic.StoreUint32(&o.done, 1)
GoStore(g) ==
    /\ threads[g].pc = "store"
    /\ responses' = [responses EXCEPT ![threads[g].resp].once = TRUE]
    /\ Goto(g, "unlock")
    /\ UNCHANGED <<recorder, log, halted, calls, wire, errs, got, closes, built, onceM>>

\* defer o.m.Unlock()
GoUnlock(g) ==
    /\ threads[g].pc = "unlock"
    /\ onceM' = onceM \ {threads[g].resp}
    /\ Goto(g, AfterOnce(threads[g].call))
    /\ UNCHANGED <<recorder, responses, log, halted, calls, wire, errs, got, closes, built>>

\* r.recorder.t.Errorf with the message of the failed assertion
GoMsg(g) ==
    LET i == threads[g].resp
        c == threads[g].call
        st == [log |-> log[Owner(i)], once |-> TRUE]
    IN  /\ threads[g].pc = "msg"
        /\ log' = [log EXCEPT ![Owner(i)] =
                IF c.op = "ExpectBodyContains" THEN ExpectBodyContains(i, c.str, st).log
                ELSE IF c.op = "ExpectCode" THEN ExpectCode(i, c.code, st).log
                ELSE ExpectOk(i, st).log]
        /\ Goto(g, "done")
        /\ UNCHANGED <<recorder, responses, halted, calls, wire, errs, got, closes, built, onceM>>

\* Recorder.GetCookies
GetCookies(t) ==
    /\ Running(t)
    /\ recorder[t].made
    /\ LET p == urlParse(recorder[t].baseURL) IN
       IF ~p.ok
       THEN /\ Fatal(t)
            /\ errs' = [errs EXCEPT ![t] = @ + 1]
            /\ UNCHANGED got
       ELSE /\ got' = [got EXCEPT ![t] =
                    [called |-> TRUE,
                     cookies |-> CookiePairs(clientCookies(recorder[t].client, p.Host)),
                     at |-> Len(wire)]]
            /\ UNCHANGED <<log, halted, errs>>
    /\ UNCHANGED <<recorder, responses, calls, wire, closes, built, threads, onceM>>

\* ------------------------------------------------------------------------
\* Spec: one test creates a Recorder over a handler, dispatches requests
\* and checks the Responses.
\* ------------------------------------------------------------------------
Next ==
    \/ NewRecorder("TestA")
    \/ \E mp \in ReqInputs : \E out \in Handler(mp) \cup {TransportError} :
            Do("TestA", NewRequest("TestA", mp[1], mp[2]), out)
    \/ \E i \in DOMAIN responses : CallExpectOk(i)
    \/ \E i \in DOMAIN responses, code \in Codes : CallExpectCode(i, code)
    \/ \E i \in DOMAIN responses, str \in Needles : CallExpectBodyContains(i, str)
    \/ \E i \in DOMAIN responses : CallPrintFailure(i)
    \/ \E i \in DOMAIN responses : CallPrintFailureOnce(i)

Spec == Init /\ [][Next]_vars

\* ------------------------------------------------------------------------
\* SpecBody: as Spec, against a handler whose replies cannot be read to the
\* end or are not the JSON they declare.
\* ------------------------------------------------------------------------
NextBody ==
    \/ NewRecorder("TestA")
    \/ \E mp \in ReqInputs : \E out \in BodyHandler(mp) \cup {TransportError} :
            Do("TestA", NewRequest("TestA", mp[1], mp[2]), out)
    \/ \E i \in DOMAIN responses : CallExpectOk(i)
    \/ \E i \in DOMAIN responses, code \in Codes : CallExpectCode(i, code)
    \/ \E i \in DOMAIN responses, str \in Needles : CallExpectBodyContains(i, str)
    \/ \E i \in DOMAIN responses : CallPrintFailure(i)
    \/ \E i \in DOMAIN responses : CallPrintFailureOnce(i)

SpecBody == Init /\ [][NextBody]_vars

\* ------------------------------------------------------------------------
\* SpecTests: two tests of one run, each with its own testing.T and its own
\* Recorder (over a handler or over a URL), which it may close.
\* ------------------------------------------------------------------------
NextTests ==
    \/ \E t \in Tests : NewRecorder(t)
    \/ \E t \in Tests : NewURLRecorder(t, <<"http://h2">>)
    \/ \E t \in Tests : Close(t)
    \/ \E t \in Tests, out \in {TransportError, Direct(ReplyArr)} :
            Do(t, NewRequest(t, "GET", "/users"), out)
    \/ \E i \in DOMAIN responses : CallExpectOk(i)
    \/ \E i \in DOMAIN responses : CallPrintFailure(i)

SpecTests == Init /\ [][NextTests]_vars

\* ------------------------------------------------------------------------
\* SpecCookies: one test sends requests through every verb to a handler
\* that manages a session cookie, and reads the cookies back.
\* ------------------------------------------------------------------------
NextCookies ==
    \/ NewRecorder("TestA")
    \/ \E out \in CookieOutcomes : Get("TestA", "/users", out)
    \/ \E out \in CookieOutcomes, data \in FormData : Post("TestA", "/users", data, out)
    \/ \E out \in CookieOutcomes, data \in FormData : Put("TestA", "/users", data, out)
    \/ \E out \in CookieOutcomes : Delete("TestA", "/users", out)
    \/ \E out \in CookieOutcomes : Do("TestA", NewRequest("TestA", "GET", "/home"), out)
    \/ GetCookies("TestA")

SpecCookies == Init /\ [][NextCookies]_vars

\* ------------------------------------------------------------------------
\* SpecBuild: one test creates a Recorder over a handler or over a base URL
\* and builds requests with each of the four builders.
\* ------------------------------------------------------------------------
NextBuild ==
    \/ NewRecorder("TestA")
    \/ \E b \in Bases : NewURLRecorder("TestA", b)
    \/ \E m \in BuildMethods, p \in BuildPaths : BuildNewRequest("TestA", m, p)
    \/ \E m \in BuildMethods, p \in BuildPaths, d \in FormData :
            BuildNewRequestWithData("TestA", m, p, d)
    \/ \E m \in BuildMethods, p \in BuildPaths, f \in Fields, fs \in FileMaps,
          o \in FieldOrders, b \in Boundaries :
            BuildNewMultipartRequest("TestA", m, p, f, fs, o, b)
    \/ \E m \in BuildMethods, p \in BuildPaths, v \in JSONValues :
            BuildNewJSONRequest("TestA", m, p, v)

SpecBuild == Init /\ [][NextBuild]_vars

\* ------------------------------------------------------------------------
\* SpecColor: two tests, each with its own Recorder, switch colorization
\* off and on and print failures of Responses with and without a body.
\* ------------------------------------------------------------------------
NextColor ==
    \/ \E t \in Tests : NewRecorder(t)
    \/ \E t \in Tests : NewURLRecorder(t, <<"http://h2">>)
    \/ \E t \in Tests, b \in BOOLEAN : SetColorize(t, b)
    \/ \E t \in Tests, out \in {Direct(ReplyArr), Direct(ReplyEmpty)} :
            Do(t, NewRequest(t, "GET", "/users"), out)
    \/ \E i \in DOMAIN responses : CallExpectOk(i)
    \/ \E i \in DOMAIN responses : CallPrintFailure(i)

SpecColor == Init /\ [][NextColor]_vars

\* ------------------------------------------------------------------------
\* SpecConc: one test obtains Responses and starts goroutines that call
\* assertions and PrintFailureOnce on them at the same time.
\* ------------------------------------------------------------------------
NextConc ==
    \/ NewRecorder("TestA")
    \/ Do("TestA", NewRequest("TestA", "GET", "/users"), Direct(ReplyArr))
    \/ \E g \in Goroutines, i \in DOMAIN responses, c \in ConcCalls : GoCall(g, i, c)
    \/ \E g \in Goroutines : GoLoad(g)
    \/ \E g \in Goroutines : GoLock(g)
    \/ \E g \in Goroutines : GoPrint(g)
    \/ \E g \in Goroutines : GoStore(g)
    \/ \E g \in Goroutines : GoUnlock(g)
    \/ \E g \in Goroutines : GoMsg(g)

SpecConc == Init /\ [][NextConc]_vars

\* ------------------------------------------------------------------------
\* SpecVerbs: one test sends requests through the verbs and in two steps,
\* building a request and dispatching it.
\* ------------------------------------------------------------------------
NextVerbs ==
    \/ NewRecorder("TestA")
    \/ \E m \in {"GET", "DELETE"}, p \in VerbPaths : BuildNewRequest("TestA", m, p)
    \/ \E m \in {"POST", "PUT"}, p \in VerbPaths, d \in FormData :
            BuildNewRequestWithData("TestA", m, p, d)
    \/ \E out \in VerbOutcomes : DoBuilt("TestA", out)
    \/ \E p \in VerbPaths, out \in VerbOutcomes : Get("TestA", p, out)
    \/ \E p \in VerbPaths, d \in FormData, out \in VerbOutcomes : Post("TestA", p, d, out)
    \/ \E p \in VerbPaths, d \in FormData, out \in VerbOutcomes : Put("TestA", p, d, out)
    \/ \E p \in VerbPaths, out \in VerbOutcomes : Delete("TestA", p, out)

SpecVerbs == Init /\ [][NextVerbs]_vars


\* ------------------------------------------------------------------------
\* Vocabulary of the properties
\* ------------------------------------------------------------------------
Last(q) == q[Len(q)]

CountIn(q, P(_)) == Cardinality({k \in 1..Len(q) : P(q[k])})

IsDiag(e) == e.fmt \in {"failedWas", "failedEmpty"}
IsAssertMsg(e) == e.fmt \in {"code", "contain"}
IsAssertCall(c) == c.op \in {"ExpectOk", "ExpectCode", "ExpectBodyContains"}

\* Diagnostics and assertion-failure messages that Response i has reported.
Diags(i) == CountIn(log[Owner(i)], LAMBDA e : e.resp = i /\ IsDiag(e))
AssertMsgs(i) == SelectSeq(log[Owner(i)], LAMBDA e : e.resp = i /\ IsAssertMsg(e))

\* Calls of one method made on Response i.
CallsOf(i, op) == CountIn(calls[i], LAMBDA c : c.op = op)

\* The status code a call expects.
Wanted(c) == IF c.op = "ExpectOk" THEN 200 ELSE c.code

\* Whether a call is an assertion that the Response does not meet.
Fails(i, c) ==
    CASE c.op \in {"ExpectOk", "ExpectCode"} -> responses[i].StatusCode # Wanted(c)
      [] c.op = "ExpectBodyContains" -> ~Contains(responses[i].Body, c.str)
      [] OTHER -> FALSE

\* The message a failing assertion is to leave.
FailureMsg(i, c) ==
    IF c.op = "ExpectBodyContains"
    THEN Report("Error", "contain", i, "", <<>>, <<>>, 0, 0, c.str)
    ELSE Report("Error", "code", i, "", <<>>, <<>>, Wanted(c), responses[i].StatusCode, <<>>)

ExpectedMsgs(i) ==
    LET failing == SelectSeq(calls[i], LAMBDA c : Fails(i, c))
    IN  [k \in 1..Len(failing) |-> FailureMsg(i, failing[k])]

\* The step is a call on Response i: the entries it added to the log.
Added(i) == SubSeq(log'[Owner(i)], Len(log[Owner(i)]) + 1, Len(log'[Owner(i)]))
IsCallStep(i) == i \in DOMAIN calls /\ Len(calls'[i]) = Len(calls[i]) + 1
TheCall(i) == Last(calls'[i])
Untouched(i) == log' = log /\ responses' = responses /\ halted' = halted


\* ------------------------------------------------------------------------
\* Properties of the Response methods (checked under Spec)
\* ------------------------------------------------------------------------

\* C1: PrintFailureOnce runs PrintFailure at most once per Response: apart
\* from the diagnostics of direct PrintFailure calls, a Response has reported
\* at most one diagnostic, and exactly one as soon as PrintFailureOnce was
\* called on it or an assertion on it failed.
C1_PrintsAtMostOnce ==
    \A i \in DOMAIN responses :
        LET viaOnce == Diags(i) - CallsOf(i, "PrintFailure")
            triggered == \E k \in 1..Len(calls[i]) :
                            calls[i][k].op = "PrintFailureOnce" \/ Fails(i, calls[i][k])
        IN  /\ viaOnce \in {0, 1}
            /\ triggered => viaOnce = 1

\* PrintFailureOnce was called twice on a Response and one diagnostic stands.
C1_Witness ==
    \E i \in DOMAIN responses :
        /\ CallsOf(i, "PrintFailureOnce") = 2
        /\ Diags(i) = 1

\* C2: the printed-once flag is unset on the Response Do creates, and no step
\* (an assertion, a print, a later Do) takes it from set back to unset.
C2_FlagNeverReverts ==
    [][ /\ \A i \in DOMAIN responses :
              i \in DOMAIN responses' /\ (responses[i].once => responses'[i].once)
        /\ \A i \in DOMAIN responses' \ DOMAIN responses : ~responses'[i].once
      ]_vars

\* A Response whose flag is set, was called again after that, and is followed
\* by a later Response of the same Recorder whose flag is unset.
C2_Witness ==
    /\ Len(responses) = 2
    /\ responses[1].once /\ Len(calls[1]) = 2
    /\ ~responses[2].once
    /\ responses[1].recorder = responses[2].recorder

\* C3: failing assertions are recorded and the test goes on: the assertion
\* messages a Response has reported are exactly those of the failing calls
\* made on it, in call order; the test is not halted by them; and when only
\* assertions were called and one failed, exactly one diagnostic was printed.
C3_FailuresAccumulate ==
    \A i \in DOMAIN responses :
        /\ AssertMsgs(i) = ExpectedMsgs(i)
        /\ calls[i] # <<>> /\ halted[Owner(i)] => Last(log[Owner(i)]).level = "Fatal"
        /\ \A e \in {log[Owner(i)][k] : k \in 1..Len(log[Owner(i)])} :
              e.resp = i => e.level = "Error"
        /\ (/\ \A k \in 1..Len(calls[i]) : IsAssertCall(calls[i][k])
            /\ Len(ExpectedMsgs(i)) >= 1) => Diags(i) = 1

\* Two assertions failed on one Response: two messages and one diagnostic.
C3_Witness ==
    \E i \in DOMAIN responses :
        /\ Len(calls[i]) = 2
        /\ calls[i][1].op = "ExpectCode" /\ calls[i][2].op = "ExpectBodyContains"
        /\ Len(AssertMsgs(i)) = 2
        /\ Diags(i) = 1
        /\ ~halted[Owner(i)]

\* C4: ExpectCode(c) on a Response of status s changes nothing when s = c;
\* when s # c it adds one Error message naming c as expected and s as
\* actual, preceded by the diagnostic if none was printed yet.  ExpectOk
\* does what ExpectCode(200) does.
C4_ExpectCode ==
    [][ \A i \in DOMAIN responses :
          (IsCallStep(i) /\ TheCall(i).op \in {"ExpectOk", "ExpectCode"}) =>
            LET c == Wanted(TheCall(i))
                s == responses[i].StatusCode
            IN  IF s = c THEN Untouched(i)
                ELSE /\ Len(Added(i)) = (IF responses[i].once THEN 1 ELSE 2)
                     /\ Last(Added(i)) =
                            Report("Error", "code", i, "", <<>>, <<>>, c, s, <<>>)
                     /\ Len(Added(i)) = 2 => IsDiag(Added(i)[1])
                     /\ halted' = halted
      ]_vars

\* ExpectCode(404) on a 200 Response left a message naming 404 and 200, and
\* ExpectOk passed on it.
C4_Witness ==
    \E i \in DOMAIN responses :
        /\ responses[i].StatusCode = 200
        /\ calls[i] = <<CallRec("ExpectOk", 0, <<>>), CallRec("ExpectCode", 404, <<>>)>>
        /\ AssertMsgs(i) = <<Report("Error", "code", i, "", <<>>, <<>>, 404, 200, <<>>)>>

\* C5: ExpectBodyContains(s) changes nothing when s occurs in the body of
\* record (for a JSON payload its indented form, not the payload as sent);
\* otherwise it adds one Error message naming s, preceded by the diagnostic
\* if none was printed yet.
C5_ExpectBodyContains ==
    [][ \A i \in DOMAIN responses :
          (IsCallStep(i) /\ TheCall(i).op = "ExpectBodyContains") =>
            LET str == TheCall(i).str
            IN  IF Contains(responses[i].Body, str) THEN Untouched(i)
                ELSE /\ Len(Added(i)) = (IF responses[i].once THEN 1 ELSE 2)
                     /\ Last(Added(i)) =
                            Report("Error", "contain", i, "", <<>>, <<>>, 0, 0, str)
                     /\ Len(Added(i)) = 2 => IsDiag(Added(i)[1])
                     /\ halted' = halted
      ]_vars

\* On a JSON Response, a substring found only in the indented form passed and
\* a substring found only in the raw payload failed and was named.
C5_Witness ==
    \E i \in DOMAIN responses :
        /\ isJSON(responses[i].ContentType)
        /\ responses[i].Body # responses[i].payload
        /\ calls[i] = <<CallRec("ExpectBodyContains", 0, <<":", " ", "1">>),
                        CallRec("ExpectBodyContains", 0, <<":", "1">>)>>
        /\ ~Contains(responses[i].payload, <<":", " ", "1">>)
        /\ Contains(responses[i].payload, <<":", "1">>)
        /\ AssertMsgs(i) = <<Report("Error", "contain", i, "", <<>>, <<>>, 0, 0, <<":", "1">>)>>


\* ------------------------------------------------------------------------
\* Properties of dispatch (C6 under SpecTests, C7 under SpecCookies,
\* C8 and C9 under SpecBody, C10 under Spec)
\* ------------------------------------------------------------------------
WireOf(t) == {k \in 1..Len(wire) : wire[k].test = t}
OwnedBy(t) == {i \in DOMAIN responses : responses[i].recorder = t}
Fatals(q) == CountIn(q, LAMBDA e : e.level = "Fatal")

\* The step is a Do of test t whose transport failed: a request went out and
\* no Response came back.
DoFailed(t) ==
    /\ Len(wire') > Len(wire)
    /\ Last(wire').test = t
    /\ Len(responses') = Len(responses)

\* C6: a Do whose transport fails sends the request once, reports one fatal
\* failure to the test's testing.T, returns no Response and stops that test
\* and no other: a stopped test reports, dispatches, creates and calls
\* nothing more.
C6_TransportErrorIsFatal ==
    [][ \A t \in Tests :
          /\ DoFailed(t) =>
                /\ Len(wire') = Len(wire) + 1
                /\ log'[t] = Append(log[t], FatalReport)
                /\ Fatals(log'[t]) = 1
                /\ halted'[t]
                /\ responses' = responses /\ calls' = calls
                /\ \A u \in Tests \ {t} : halted'[u] = halted[u] /\ log'[u] = log[u]
          /\ halted[t] =>
                /\ halted'[t]
                /\ log'[t] = log[t] /\ recorder'[t] = recorder[t] /\ got'[t] = got[t]
                /\ {k \in 1..Len(wire') : wire'[k].test = t} = WireOf(t)
                /\ {i \in DOMAIN responses' : responses'[i].recorder = t} = OwnedBy(t)
                /\ \A i \in OwnedBy(t) :
                      responses'[i] = responses[i] /\ calls'[i] = calls[i]
      ]_vars

\* TestA was stopped by a failed Do, with one fatal report, while TestB holds
\* a Response, has reported a failed assertion and is still running.
C6_Witness ==
    /\ halted["TestA"] /\ Fatals(log["TestA"]) = 1
    /\ ~halted["TestB"]
    /\ OwnedBy("TestB") # {}
    /\ log["TestB"] # <<>>

\* The reply to wire entry j stores a cookie.
Sets(j) == wire[j].setCookie.name # "" /\ ~wire[j].setCookie.expire
SetPair(j) == [name |-> wire[j].setCookie.name, value |-> wire[j].setCookie.value]

\* Requests j and k went from the same Recorder to the same destination.
SameRoute(j, k) == wire[j].test = wire[k].test /\ wire[j].Host = wire[k].Host

\* A reply between wire entries j and k replaced or expired the cookie of j.
Overwritten(j, k) ==
    \E m \in (j + 1)..(k - 1) :
        SameRoute(j, m) /\ wire[m].setCookie.name = wire[j].setCookie.name

RECURSIVE Compact(_, _)
Compact(text, inString) ==
    IF text = <<>> THEN <<>>
    ELSE LET c == Head(text) IN
         IF c = Quote THEN <<c>> \o Compact(Tail(text), ~inString)
         ELSE IF ~inString /\ isSpace(c) THEN Compact(Tail(text), inString)
         ELSE <<c>> \o Compact(Tail(text), inString)

\* C8 as stated: the body of record of a Response declared as JSON is a
\* re-encoding of its payload, laid out by indentation, and that of any
\* other Response is its payload byte for byte.
C8_BodyIsNormalizedPayload ==
    \A i \in DOMAIN responses :
        IF isJSON(responses[i].ContentType)
        THEN /\ Compact(responses[i].Body, FALSE) = Compact(responses[i].payload, FALSE)
             /\ Indent(responses[i].Body).out = responses[i].Body
        ELSE responses[i].Body = responses[i].payload

\* C9 as stated: every error that arose in a test has its message in the
\* test's testing.T.
C9_NoErrorDropped ==
    \A t \in Tests : CountIn(log[t], LAMBDA e : e.fmt = "err") = errs[t]

\* The diagnostic PrintFailure is to emit for Response i about request rq.
DiagFor(i, rq) ==
    LET r == responses[i] IN
    IF r.Body = <<>>
    THEN Report("Error", "failedEmpty", i, rq.Method, rq.Path, <<>>, 0, 0, <<>>)
    ELSE Report("Error", "failedWas", i, rq.Method, rq.Path,
                IF recorder[r.recorder].Colorize THEN <<Esc>> \o r.Body ELSE r.Body,
                0, 0, <<>>)

DiagEntries(i) == SelectSeq(log[Owner(i)], LAMBDA e : e.resp = i /\ IsDiag(e))

\* C10 as stated: every diagnostic names the method and path of the request
\* the caller passed to Do.
C10_NamesCallersRequest ==
    \A i \in DOMAIN responses :
        \A k \in 1..Len(DiagEntries(i)) :
            /\ DiagEntries(i)[k].Method = responses[i].sent.Method
            /\ DiagEntries(i)[k].Path = responses[i].sent.Path

\* C10, amended: each PrintFailure execution emits exactly one message,
\* which names the method and path of the request that obtained the reply
\* (the last the client sent for that Do: after a redirect, the request it
\* followed the redirect with) and holds the whole body of record, or, when
\* and only when that body is empty, the empty marker and no body text.
C10_PrintFailureMessage ==
    \A i \in DOMAIN responses :
        /\ Len(DiagEntries(i)) =
              CallsOf(i, "PrintFailure") + (IF responses[i].once THEN 1 ELSE 0)
        /\ \A k \in 1..Len(DiagEntries(i)) :
              /\ DiagEntries(i)[k] = DiagFor(i, wire[responses[i].wireAt])
              /\ (DiagEntries(i)[k].fmt = "failedEmpty") <=> (responses[i].Body = <<>>)
              /\ Contains(DiagEntries(i)[k].body, responses[i].Body)

\* PrintFailure ran for a Response with an empty body and for one with a
\* body, obtained after a redirect.
C10_Witness ==
    \E i, j \in DOMAIN responses :
        /\ responses[i].Body = <<>> /\ Len(DiagEntries(i)) = 1
        /\ DiagEntries(i)[1].fmt = "failedEmpty"
        /\ responses[j].Body # <<>> /\ Len(DiagEntries(j)) = 1
        /\ responses[j].sent # responses[j].Request
        /\ DiagEntries(j)[1].Path = <<"/home">>


\* ------------------------------------------------------------------------
\* Properties of the Recorder's listener (C11 under SpecTests)
\* ------------------------------------------------------------------------

\* The step is a Close call of test t.
IsCloseStep(t) == closes'[t] = closes[t] + 1

\* C11: NewRecorder leaves the Recorder with a running listener and
\* NewURLRecorder with none; a running listener stays running in every step
\* but a Close, which stops it; a stopped listener stays stopped in every
\* step (further Close calls included) and yields no further Response; and a
\* Recorder without a listener never gets one, a Close on it changing
\* nothing of the Recorder, the Responses or the reports.
C11_ListenerLifecycle ==
    [][ \A t \in Tests :
          LET r == recorder[t]
              r2 == recorder'[t]
          IN  /\ (~r.made /\ r2.made) =>
                    r2.server = IF r2.baseURL = <<"http://h1">> THEN "running" ELSE "nil"
              /\ r.made => r2.made /\ r2.baseURL = r.baseURL
              /\ r.server = "running" =>
                    /\ closes[t] = 0
                    /\ r2.server = IF IsCloseStep(t) THEN "closed" ELSE "running"
              /\ r.server = "closed" =>
                    /\ r2.server = "closed"
                    /\ {i \in DOMAIN responses' : responses'[i].recorder = t} = OwnedBy(t)
              /\ (r.made /\ r.server = "nil") =>
                    /\ r2.server = "nil"
                    /\ IsCloseStep(t) =>
                          /\ recorder' = recorder /\ responses' = responses
                          /\ log' = log /\ halted' = halted /\ wire' = wire
      ]_vars

\* TestA's Recorder, made over a handler, was closed twice and its listener
\* is stopped, after it had served a Response; TestB's Recorder, made over a
\* URL, was closed and has no listener.
C11_Witness ==
    /\ recorder["TestA"].server = "closed" /\ closes["TestA"] = 2
    /\ OwnedBy("TestA") # {}
    /\ recorder["TestB"].made /\ recorder["TestB"].server = "nil"
    /\ closes["TestB"] >= 1


\* ------------------------------------------------------------------------
\* Properties of the request builders (C12 under SpecBuild)
\* ------------------------------------------------------------------------
Builders == {"NewRequest", "NewRequestWithData", "NewMultipartRequest", "NewJSONRequest"}

\* C12: a request that one of the four builders returned for a method token
\* and a path has the URL that is the Recorder's base URL followed by the
\* path as given, nothing put between them and nothing taken away, and has
\* the method as given.
C12_URLIsBasePlusPath ==
    \A t \in Tests :
        (built[t].has /\ built[t].method \in Methods) =>
            /\ built[t].by \in Builders
            /\ urlString(built[t].req) = recorder[t].baseURL \o <<built[t].path>>
            /\ built[t].req.Method = built[t].method

\* NewJSONRequest built a PUT request for /users on a base URL that ends in
\* a slash: the URL keeps both slashes.
C12_Witness ==
    /\ built["TestA"].has /\ built["TestA"].by = "NewJSONRequest"
    /\ built["TestA"].method = "PUT" /\ built["TestA"].path = "/users"
    /\ recorder["TestA"].baseURL = <<"http://h2", "/">>
    /\ urlString(built["TestA"].req) = <<"http://h2", "/", "/users">>
    /\ built["TestA"].req.Path = <<"/", "/users">>


\* ------------------------------------------------------------------------
\* Properties of the verbs (C13 under SpecVerbs)
\* ------------------------------------------------------------------------
FormCT == <<"application/x-www-form-urlencoded">>

\* The test holds the request req, built by the builder by for m and p, and
\* has dispatched nothing since it built it.
Holding(t, by, m, p, req) ==
    /\ built[t].has /\ built[t].by = by /\ built[t].method = m
    /\ built[t].path = p /\ built[t].req = req
    /\ \A k \in (built[t].at + 1)..Len(wire) : wire[k].test # t

\* The step sends one request of test t with the given method, path,
\* content type and body and the cookies of the Recorder's store (the
\* client adds a second request when it follows a redirect); it stops the
\* test when the transport fails and else yields one new Response.
SendsOne(t, m, p, ctype, body, out) ==
    LET n == Len(wire) IN
    /\ Len(wire') = n + (IF ~out.err /\ out.redirect THEN 2 ELSE 1)
    /\ wire'[n + 1].test = t /\ wire'[n + 1].Method = m
    /\ wire'[n + 1].Host \o wire'[n + 1].Path = recorder[t].baseURL \o <<p>>
    /\ wire'[n + 1].ContentType = ctype /\ wire'[n + 1].Body = body
    /\ wire'[n + 1].cookies = CookiePairs(clientCookies(recorder[t].client, wire'[n + 1].Host))
    /\ IF out.err
       THEN halted'[t] /\ responses' = responses /\ Last(log'[t]) = FatalReport
       ELSE /\ Len(responses') = Len(responses) + 1
            /\ Last(responses').recorder = t /\ Last(responses').sent.Method = m
            /\ log' = log /\ halted' = halted

\* verbStep, the step of a verb, against the two-step form for the request
\* req of the builder by: when the builder fails the verb is the builder's
\* failing call; else the verb sends one request, and from a state where the
\* test holds req the verb's step and the dispatch of req are the same step.
VerbIsBuildThenDo(verbStep, t, by, m, p, req, out) ==
    IF req.ok
    THEN /\ verbStep => SendsOne(t, m, p, req.ContentType, req.Body, out)
         /\ Holding(t, by, m, p, req) => (verbStep <=> DoBuilt(t, out))
    ELSE verbStep <=> Build(t, by, m, p, req)

\* C13: Get and Delete are Do of the request NewRequest builds, without
\* body and content type; Post and Put are Do of the request
\* NewRequestWithData builds, with the encoded form as body and the form
\* content type; each sends one request and changes the Responses, the
\* reports, the cookie store and the wire exactly as the two-step form does.
C13_VerbsAreBuildThenDo ==
    [][ \A t \in Tests, p \in VerbPaths, d \in FormData, out \in VerbOutcomes :
          /\ VerbIsBuildThenDo(Get(t, p, out), t, "NewRequest", "GET", p,
                               NewRequest(t, "GET", p), out)
          /\ VerbIsBuildThenDo(Delete(t, p, out), t, "NewRequest", "DELETE", p,
                               NewRequest(t, "DELETE", p), out)
          /\ VerbIsBuildThenDo(Post(t, p, d, out), t, "NewRequestWithData", "POST", p,
                               NewRequestWithData(t, "POST", p, d), out)
          /\ VerbIsBuildThenDo(Put(t, p, d, out), t, "NewRequestWithData", "PUT", p,
                               NewRequestWithData(t, "PUT", p, d), out)
          /\ NewRequest(t, "GET", p).ok =>
                /\ NewRequest(t, "GET", p).Body = <<>>
                /\ NewRequest(t, "DELETE", p).Body = <<>>
                /\ NewRequestWithData(t, "POST", p, d).ContentType = FormCT
                /\ NewRequestWithData(t, "PUT", p, d).ContentType = FormCT
                /\ NewRequestWithData(t, "PUT", p, d).Body = valuesEncode(d)
      ]_vars

\* Two PUT requests for /users went out with the same form body, the second
\* from a request the test built after the first; the first reply set the
\* session cookie, and the second request carried it; both yielded a
\* Response.
C13_Witness ==
    /\ Len(wire) = 2 /\ Len(responses) = 2
    /\ wire[1].Method = "PUT" /\ wire[2].Method = "PUT"
    /\ wire[1].Body = <<"a", "=", "1">> /\ wire[2].Body = wire[1].Body
    /\ wire[1].ContentType = FormCT /\ wire[2].ContentType = FormCT
    /\ wire[1].setCookie.name = "sid" /\ wire[2].cookies # {}
    /\ built["TestA"].by = "NewRequestWithData" /\ built["TestA"].method = "PUT"
    /\ built["TestA"].at = 1


\* ------------------------------------------------------------------------
\* Properties of the binding of Responses (C14 under SpecTests)
\* ------------------------------------------------------------------------

\* The step is a Do that returned a Response.
IsNewResponse == Len(responses') = Len(responses) + 1

\* C14: a Do that returns adds one Response, bound to the Recorder that
\* sent the request and to the request and reply just exchanged, with the
\* printed flag unset, and leaves every other Response as it was; a call on
\* one Response changes no other Response and reports only for that
\* Response and only to the testing.T of the Recorder that dispatched it;
\* so a Response on which only assertions were called, one of them failing,
\* has exactly one diagnostic, whatever was called on the other Responses.
C14_ResponseIsItsOwn ==
    [][ /\ \A i \in DOMAIN responses :
              /\ i \in DOMAIN responses'
              /\ responses'[i].recorder = responses[i].recorder
              /\ responses'[i].wireAt = responses[i].wireAt
              /\ responses'[i].Request = responses[i].Request
              /\ IsCallStep(i) =>
                    /\ \A j \in DOMAIN responses \ {i} : responses'[j] = responses[j]
                    /\ \A u \in Tests \ {Owner(i)} : log'[u] = log[u]
                    /\ \A k \in 1..Len(Added(i)) : Added(i)[k].resp = i
        /\ IsNewResponse =>
              LET n == Len(responses')
                  r == responses'[n]
                  w == wire'[Len(wire')]
              IN  /\ \A i \in DOMAIN responses : responses'[i] = responses[i]
                  /\ ~r.once /\ calls'[n] = <<>>
                  /\ r.recorder = w.test
                  /\ r.wireAt = Len(wire') /\ r.wireAt > Len(wire)
                  /\ r.Request.Method = w.Method /\ r.Request.Path = w.Path
                  /\ log' = log
        /\ \A t \in Tests : \A k \in 1..Len(log'[t]) :
              log'[t][k].resp # 0 =>
                  /\ log'[t][k].resp \in DOMAIN responses'
                  /\ responses'[log'[t][k].resp].recorder = t
        /\ \A i \in DOMAIN responses' :
              (/\ \A k \in 1..Len(calls'[i]) : IsAssertCall(calls'[i][k])
               /\ \E k \in 1..Len(calls'[i]) :
                     responses'[i].StatusCode # Wanted(calls'[i][k]))
              => Cardinality({k \in 1..Len(log'[responses'[i].recorder]) :
                                /\ log'[responses'[i].recorder][k].resp = i
                                /\ IsDiag(log'[responses'[i].recorder][k])}) = 1
      ]_vars

\* TestA's Recorder returned two Responses; ExpectOk failed on each, and
\* each has its own diagnostic and its own set flag, all in TestA's record;
\* TestB has a Recorder and nothing was reported to it.
C14_Witness ==
    /\ Len(responses) = 2
    /\ responses[1].recorder = "TestA" /\ responses[2].recorder = "TestA"
    /\ responses[1].wireAt # responses[2].wireAt
    /\ calls[1] = <<CallRec("ExpectOk", 0, <<>>)>>
    /\ calls[2] = <<CallRec("ExpectOk", 0, <<>>)>>
    /\ Diags(1) = 1 /\ Diags(2) = 1
    /\ responses[1].once /\ responses[2].once
    /\ Len(log["TestA"]) = 4
    /\ recorder["TestB"].made /\ log["TestB"] = <<>>


\* ------------------------------------------------------------------------
\* Properties of colorization (C15 under SpecColor)
\* ------------------------------------------------------------------------

\* The diagnostics among the entries a call on Response i added.
AddedDiags(i) == SelectSeq(Added(i), IsDiag)

\* C15: a Recorder starts with Colorize set, however it was created; a
\* diagnostic of a Response with a body carries the body behind the dim
\* style when the Colorize flag of the Response's own Recorder is set at that
\* moment and the body alone when it is not; a diagnostic of a Response
\* without body carries no body and no style; and setting the flag of one
\* Recorder changes neither the other Recorder nor anything reported.
C15_ColorizeIsPerRecorder ==
    [][ /\ \A t \in Tests :
              /\ (~recorder[t].made /\ recorder'[t].made) => recorder'[t].Colorize
              /\ recorder'[t].Colorize # recorder[t].Colorize =>
                    /\ \A u \in Tests \ {t} : recorder'[u] = recorder[u]
                    /\ log' = log /\ responses' = responses
        /\ \A i \in DOMAIN responses :
              IsCallStep(i) =>
                  \A k \in 1..Len(AddedDiags(i)) :
                      LET e == AddedDiags(i)[k] IN
                      IF responses[i].Body = <<>>
                      THEN e.fmt = "failedEmpty" /\ e.body = <<>>
                      ELSE /\ e.fmt = "failedWas"
                           /\ e.body = IF recorder[Owner(i)].Colorize
                                       THEN <<Esc>> \o responses[i].Body
                                       ELSE responses[i].Body
      ]_vars

\* TestA switched colorization off and TestB left it on; each printed the
\* failure of a Response with a body: TestA's diagnostic carries the plain
\* body, TestB's the styled one.
C15_Witness ==
    /\ ~recorder["TestA"].Colorize /\ recorder["TestB"].Colorize
    /\ Len(responses) = 2
    /\ responses[1].recorder = "TestA" /\ responses[2].recorder = "TestB"
    /\ responses[1].Body # <<>> /\ responses[2].Body = responses[1].Body
    /\ Len(log["TestA"]) = 1 /\ log["TestA"][1].body = responses[1].Body
    /\ Len(log["TestB"]) = 1 /\ log["TestB"][1].body = <<Esc>> \o responses[2].Body


\* ------------------------------------------------------------------------
\* Properties of the order of reports (C16 and C17 under Spec)
\* ------------------------------------------------------------------------

\* Places in the owner's record of the diagnostics and of the assertion
\* messages of Response i.
DiagPos(i) == {k \in 1..Len(log[Owner(i)]) :
                  log[Owner(i)][k].resp = i /\ IsDiag(log[Owner(i)][k])}
MsgPos(i) == {k \in 1..Len(log[Owner(i)]) :
                  log[Owner(i)][k].resp = i /\ IsAssertMsg(log[Owner(i)][k])}

\* C16: on a Response on which only assertions were called: while none has
\* failed there is no diagnostic; once one has failed there is exactly one
\* diagnostic, it stands directly before the message of the first failing
\* assertion, and every assertion message of the Response stands after it.
C16_DiagnosticComesFirst ==
    \A i \in DOMAIN responses :
        (\A k \in 1..Len(calls[i]) : IsAssertCall(calls[i][k])) =>
            IF ExpectedMsgs(i) = <<>>
            THEN DiagPos(i) = {} /\ MsgPos(i) = {}
            ELSE /\ Cardinality(DiagPos(i)) = 1
                 /\ \A d \in DiagPos(i) :
                       /\ \A m \in MsgPos(i) : d < m
                       /\ d + 1 \in MsgPos(i)
                       /\ log[Owner(i)][d + 1] = ExpectedMsgs(i)[1]

\* On one Response, ExpectCode(404) failed and then ExpectBodyContains
\* failed: the record holds the diagnostic, then the two messages.
C16_Witness ==
    \E i \in DOMAIN responses :
        /\ calls[i] = <<CallRec("ExpectCode", 404, <<>>),
                        CallRec("ExpectBodyContains", 0, <<":", "1">>)>>
        /\ Len(log[Owner(i)]) = 3
        /\ IsDiag(log[Owner(i)][1])
        /\ log[Owner(i)][2].fmt = "code" /\ log[Owner(i)][3].fmt = "contain"

\* C17: a direct PrintFailure call adds exactly one diagnostic of its
\* Response, whether the printed flag is set or not, and leaves the flag as
\* it was; so a PrintFailureOnce call or a failing assertion that finds the
\* flag unset still prints its diagnostic, after any number of direct
\* prints.
C17_PrintFailureBypassesLatch ==
    [][ \A i \in DOMAIN responses :
          IsCallStep(i) =>
              /\ TheCall(i).op = "PrintFailure" =>
                    /\ Len(Added(i)) = 1
                    /\ IsDiag(Added(i)[1]) /\ Added(i)[1].resp = i
                    /\ responses'[i].once = responses[i].once
              /\ (/\ TheCall(i).op = "PrintFailureOnce" \/ Fails(i, TheCall(i))
                  /\ ~responses[i].once) =>
                    /\ Len(AddedDiags(i)) = 1
                    /\ Cardinality(DiagPos(i)) = CallsOf(i, "PrintFailure")
                    /\ responses'[i].once
      ]_vars

\* PrintFailure and then PrintFailureOnce were called on one Response: two
\* diagnostics of the same content stand in the record.
C17_Witness ==
    \E i \in DOMAIN responses :
        /\ calls[i] = <<CallRec("PrintFailure", 0, <<>>), CallRec("PrintFailureOnce", 0, <<>>)>>
        /\ Len(log[Owner(i)]) = 2
        /\ IsDiag(log[Owner(i)][1]) /\ log[Owner(i)][2] = log[Owner(i)][1]
        /\ responses[i].once


\* ------------------------------------------------------------------------
\* Properties of concurrent calls (C18 under SpecConc)
\* ------------------------------------------------------------------------

\* The goroutines whose call on Response i got to PrintFailureOnce and has
\* come back from it, and those inside the Once's critical section.
PastOnce(i) ==
    {g \in Goroutines :
        /\ threads[g].resp = i /\ Enters(i, threads[g].call)
        /\ threads[g].pc \in {"msg", "done"}}
InOnce(i) ==
    {g \in Goroutines : threads[g].resp = i /\ threads[g].pc \in {"print", "store", "unlock"}}

\* C18: whatever the interleaving of the goroutines, a Response has at most
\* one diagnostic; a call that has come back from PrintFailureOnce finds
\* exactly one in the record, so every assertion message of the Response
\* stands after the diagnostic; and at most one goroutine is inside the
\* Once at a time, the others waiting at its lock.
C18_OneDiagnosticUnderRaces ==
    \A i \in DOMAIN responses :
        /\ Cardinality(DiagPos(i)) <= 1
        /\ PastOnce(i) # {} => Cardinality(DiagPos(i)) = 1
        /\ \A m \in MsgPos(i) : \E d \in DiagPos(i) : d < m
        /\ Cardinality(InOnce(i)) <= 1
        /\ InOnce(i) # {} <=> i \in onceM

\* Two goroutines ran failing assertions on one Response and both found the
\* flag unset: the first has printed the diagnostic and not yet set the
\* flag, the second waits at the lock and has recorded nothing.
C18_Witness ==
    /\ threads[1].resp = 1 /\ threads[2].resp = 1
    /\ threads[1].call.op = "ExpectOk" /\ threads[2].call.op = "ExpectBodyContains"
    /\ threads[1].pc = "store" /\ threads[2].pc = "lock"
    /\ ~responses[1].once
    /\ Cardinality(DiagPos(1)) = 1 /\ MsgPos(1) = {}

====
